---- MODULE Spec2Model ----
(***************************************************************************)
(* CIP lookup/search engine of cip-stem-intelligence.                      *)
(*                                                                         *)
(*   docs/js/search.js      buildQueryEngine(records) -> { search }        *)
(*   docs/js/loadIndex.js   normalizeText, normalizeCipInput, loadIndex    *)
(*   docs/js/app.js         canonicalCip, tokenize, searchIndex, render,   *)
(*                          update, init (page script)                     *)
(*                                                                         *)
(* A JavaScript string is modelled as the sequence of its characters, each *)
(* a one-character TLA+ string, so that trimming, regular-expression       *)
(* tests, padding, prefix and substring tests are computed, not assumed.   *)
(***************************************************************************)
EXTENDS Integers, Sequences, FiniteSets, TLC

VARIABLES
    records,    \* the array handed to buildQueryEngine (Index.records)
    byCip,      \* the Map built at construction: cipNorm -> record
    q,          \* argument q of the last search call
    stemOnly,   \* argument stemOnly of the last search call
    limit,      \* argument limit of the last search call
    results,    \* the array the last search call returned
    called,     \* TRUE once search has been called
    input,      \* text typed so far into the canonicalizer
    canon,      \* normalizeCipInput(input)
    canonPage,  \* canonicalCip(input)
    pc,         \* the page script: "loading" (init awaits the fetch) or "listening"
    INDEX,      \* app.js INDEX: <<>> for null, <<doc>> once loaded
    fetches,    \* number of fetch(INDEX_URL) calls made
    elQ,        \* value of the query box
    elStem,     \* checked state of the STEM-only box
    elStatus,   \* text of #statusText
    elMeta,     \* text of #metaText
    elResults,  \* content of #results
    url         \* the q and stem parameters of the page URL

pageVars == <<pc, INDEX, fetches, elQ, elStem, elStatus, elMeta, elResults, url>>

vars == <<records, byCip, q, stemOnly, limit, results, called, input, canon, canonPage,
          pageVars>>

searchVars == <<records, byCip, q, stemOnly, limit, results, called>>
canonVars == <<input, canon, canonPage>>

\* texts of #statusText, #metaText and #results
StatusInitial == [kind |-> "initial", n |-> 0]
StatusFailed == [kind |-> "failed", n |-> 0]
StatusCount(k) == [kind |-> "count", n |-> k]
ResultsInitial == [kind |-> "initial", cards |-> <<>>, more |-> FALSE]
ResultsError == [kind |-> "error", cards |-> <<>>, more |-> FALSE]
ResultsNoMatches == [kind |-> "nomatch", cards |-> <<>>, more |-> FALSE]

\* the page before its script has run
PageIdle ==
    /\ pc = "loading"
    /\ INDEX = <<>>
    /\ fetches = 0
    /\ elQ = <<>>
    /\ elStem = FALSE
    /\ elStatus = StatusInitial
    /\ elMeta = "initial"
    /\ elResults = ResultsInitial
    /\ url = [q |-> <<>>, stem |-> FALSE]

-----------------------------------------------------------------------------
(* Bounds of the model *)

MaxRecords == 3      \* longest record collection
MaxLimit == 3        \* largest limit argument
MaxInputLen == 7     \* longest text typed into the canonicalizer

-----------------------------------------------------------------------------
(* Characters and JavaScript string primitives *)

Digits == {"0", "1", "2", "3", "4", "5", "6", "7", "8", "9"}

Whitespace == {" ", "\t"}

Brackets == {"[", "]", "(", ")"}

\* UTF-16 code units of the characters the model uses (String < compares them)
CharCode ==
    [c \in {"\t", " ", "(", ")", ".", "[", "]", "C", "E", "c", "e", "x"} \cup Digits |->
        CASE c = "\t" -> 9
          [] c = " " -> 32
          [] c = "(" -> 40
          [] c = ")" -> 41
          [] c = "." -> 46
          [] c = "0" -> 48
          [] c = "1" -> 49
          [] c = "2" -> 50
          [] c = "3" -> 51
          [] c = "4" -> 52
          [] c = "5" -> 53
          [] c = "6" -> 54
          [] c = "7" -> 55
          [] c = "8" -> 56
          [] c = "9" -> 57
          [] c = "C" -> 67
          [] c = "E" -> 69
          [] c = "[" -> 91
          [] c = "]" -> 93
          [] c = "c" -> 99
          [] c = "e" -> 101
          [] c = "x" -> 120]

SetMin(S) == CHOOSE m \in S : \A n \in S : m <= n
SetMax(S) == CHOOSE m \in S : \A n \in S : m >= n

\* String.prototype.trim
trim(s) ==
    LET keep == {i \in 1..Len(s) : s[i] \notin Whitespace}
    IN  IF keep = {} THEN <<>> ELSE SubSeq(s, SetMin(keep), SetMax(keep))

\* String.prototype.toLowerCase
toLowerCase(s) ==
    [i \in 1..Len(s) |-> CASE s[i] = "C" -> "c" [] s[i] = "E" -> "e" [] OTHER -> s[i]]

\* s.replace(/\s+/g, " ")
collapseWhitespace(s) ==
    LET keep(i) == s[i] \notin Whitespace \/ i = 1 \/ s[i - 1] \notin Whitespace
        idx == {i \in 1..Len(s) : keep(i)}
        RECURSIVE build(_)
        build(i) ==
            IF i > Len(s) THEN <<>>
            ELSE IF i \in idx
                 THEN <<IF s[i] \in Whitespace THEN " " ELSE s[i]>> \o build(i + 1)
                 ELSE build(i + 1)
    IN  build(1)

\* String.prototype.startsWith
startsWith(s, p) == Len(p) <= Len(s) /\ SubSeq(s, 1, Len(p)) = p

\* String.prototype.endsWith
endsWith(s, p) == Len(p) <= Len(s) /\ SubSeq(s, Len(s) - Len(p) + 1, Len(s)) = p

\* String.prototype.includes
includes(hay, needle) ==
    \E k \in 0..(Len(hay) - Len(needle)) : SubSeq(hay, k + 1, k + Len(needle)) = needle

\* String.prototype.padStart(n, c)
padStart(s, n, c) ==
    IF Len(s) >= n THEN s ELSE [i \in 1..(n - Len(s)) |-> c] \o s

\* String.prototype.slice(0, n)
sliceTo(s, n) == SubSeq(s, 1, IF n < Len(s) THEN n ELSE Len(s))

\* a < b on strings: lexicographic by code unit
strLess(a, b) ==
    \E k \in 1..(Len(b)) :
        /\ k <= Len(a) + 1
        /\ SubSeq(a, 1, k - 1) = SubSeq(b, 1, k - 1)
        /\ (k = Len(a) + 1 \/ CharCode[a[k]] < CharCode[b[k]])

\* /^\d{2}$/
isTwoDigits(s) == Len(s) = 2 /\ s[1] \in Digits /\ s[2] \in Digits

\* /^\d{2}\.\d{k}$/
isDotted(s, k) ==
    /\ Len(s) = 3 + k
    /\ s[1] \in Digits /\ s[2] \in Digits
    /\ s[3] = "."
    /\ \A i \in 4..(3 + k) : s[i] \in Digits

\* /^(\d{2})\.(\d{1,4})$/
isDottedShort(s) == \E k \in 1..4 : isDotted(s, k)

-----------------------------------------------------------------------------
(* loadIndex.js *)

normalizeText(s) == collapseWhitespace(toLowerCase(trim(s)))

\* bug model: unparseable input falls through as the cleaned text, not ""
normalizeCipInputFallThrough(cip) ==
    LET raw == trim(cip)
        cleaned == SelectSeq(raw, LAMBDA c : c \notin Brackets)
    IN  IF raw = <<>> THEN <<>>
        ELSE IF isTwoDigits(cleaned) THEN cleaned \o <<".", "0", "0", "0", "0">>
        ELSE IF isDotted(cleaned, 2) THEN cleaned \o <<"0", "0">>
        ELSE IF isDotted(cleaned, 4) THEN cleaned
        ELSE IF isDottedShort(cleaned)
             THEN SubSeq(cleaned, 1, 2) \o <<".">>
                  \o padStart(SubSeq(cleaned, 4, Len(cleaned)), 4, "0")
        ELSE cleaned

normalizeCipInput(cip) ==
    LET raw == trim(cip)
        cleaned == SelectSeq(raw, LAMBDA c : c \notin Brackets)
    IN  IF raw = <<>> THEN <<>>
        ELSE IF isTwoDigits(cleaned) THEN cleaned \o <<".", "0", "0", "0", "0">>
        ELSE IF isDotted(cleaned, 2) THEN cleaned \o <<"0", "0">>
        ELSE IF isDotted(cleaned, 4) THEN cleaned
        ELSE IF isDottedShort(cleaned)
             THEN SubSeq(cleaned, 1, 2) \o <<".">>
                  \o padStart(SubSeq(cleaned, 4, Len(cleaned)), 4, "0")
        ELSE <<>>

\* one raw record of cip_stem_index.json after the load-time mapping
loadRecord(r) ==
    [cip |-> r.cip,
     title |-> r.title,
     definition |-> r.definition,
     stemEligible |-> r.stemEligible,
     cipNorm |-> r.cip,
     cipFamily |-> IF r.cipFamily # <<>> THEN r.cipFamily
                   ELSE LET dots == {i \in 1..Len(r.cip) : r.cip[i] = "."}
                        IN  IF dots = {} THEN r.cip
                            ELSE SubSeq(r.cip, 1, SetMin(dots) - 1),
     titleNorm |-> normalizeText(r.title)]

-----------------------------------------------------------------------------
(* app.js: the page script's own canonicalizer and tokenizer *)

\* s.replace(/^[\[\(]+|[\]\)]+$/g, "")
stripEdgeBrackets(s) ==
    LET notOpen == {i \in 1..Len(s) : s[i] \notin {"[", "("}}
        from == IF notOpen = {} THEN Len(s) + 1 ELSE SetMin(notOpen)
        rest == SubSeq(s, from, Len(s))
        notClose == {i \in 1..Len(rest) : rest[i] \notin {"]", ")"}}
        to == IF notClose = {} THEN 0 ELSE SetMax(notClose)
    IN  SubSeq(rest, 1, to)

\* s.split(".", 2): the text before the first dot, and the text between the
\* first dot and the second (or the end)
splitDot2(s) ==
    LET dots == {i \in 1..Len(s) : s[i] = "."}
        d1 == SetMin(dots)
        later == {i \in dots : i > d1}
        d2 == IF later = {} THEN Len(s) + 1 ELSE SetMin(later)
    IN  <<SubSeq(s, 1, d1 - 1), SubSeq(s, d1 + 1, d2 - 1)>>

isDigitRun(s, lo, hi) ==
    Len(s) >= lo /\ Len(s) <= hi /\ \A i \in 1..Len(s) : s[i] \in Digits

canonicalCip(raw) ==
    LET s == stripEdgeBrackets(trim(raw))
    IN  IF s = <<>> THEN <<>>
        ELSE IF ~\E i \in 1..Len(s) : s[i] = "."
             THEN IF isTwoDigits(s) THEN s \o <<".", "0", "0", "0", "0">> ELSE s
        ELSE LET parts == splitDot2(s)
                 left2 == trim(parts[1])
                 right == trim(parts[2])
             IN  IF isTwoDigits(left2) /\ isDigitRun(right, 2, 2)
                    THEN left2 \o <<".">> \o right \o <<"0", "0">>
                 ELSE IF isTwoDigits(left2) /\ isDigitRun(right, 4, 4)
                    THEN left2 \o <<".">> \o right
                 ELSE IF isTwoDigits(left2) /\ isDigitRun(right, 1, 4)
                    THEN left2 \o <<".">> \o padStart(right, 4, "0")
                 ELSE s

\* q.toLowerCase().split(/\s+/).map(t => t.trim()).filter(Boolean)
tokenize(s) ==
    LET low == toLowerCase(s)
        RECURSIVE toks(_, _)
        toks(i, cur) ==
            IF i > Len(low)
            THEN IF cur = <<>> THEN <<>> ELSE <<cur>>
            ELSE IF low[i] \in Whitespace
                 THEN (IF cur = <<>> THEN <<>> ELSE <<cur>>) \o toks(i + 1, <<>>)
                 ELSE toks(i + 1, Append(cur, low[i]))
    IN  toks(1, <<>>)

-----------------------------------------------------------------------------
(* search.js: buildQueryEngine *)

\* new Map(records.map(r => [r.cipNorm, r])): a later entry replaces an earlier one
buildByCip(recs) ==
    [c \in {recs[i].cipNorm : i \in 1..Len(recs)} |->
        recs[SetMax({i \in 1..Len(recs) : recs[i].cipNorm = c})]]

matchCipPrefix(record, userInputRaw) ==
    LET raw == trim(userInputRaw)
    IN  IF raw = <<>> THEN FALSE
        ELSE IF isTwoDigits(raw) THEN record.cipFamily = raw
        ELSE IF isDotted(raw, 2) THEN startsWith(record.cipNorm, raw)
        ELSE FALSE

\* the ok flag of one scanned record
isHit(r, query, qText, qCipCanon) ==
    \/ matchCipPrefix(r, query)
    \/ qText # <<>> /\ includes(r.titleNorm, qText)
    \/ qCipCanon # <<>> /\ startsWith(r.cipNorm, sliceTo(qCipCanon, 5))

\* bug model: the STEM-only filter is not applied in the scan
skippedNever(r, stem) == FALSE

\* if (stemOnly && !r.stemEligible) continue;
skipped(r, stem) == stem /\ ~r.stemEligible

\* bug model: the scan stops one hit late
limitReachedLate(n, lim) == n > lim

\* if (results.length >= limit) break;
limitReached(n, lim) == n >= lim

\* for (const r of records) { ... }: the hits in scan order
scan(recs, query, qText, qCipCanon, stem, lim) ==
    LET RECURSIVE loop(_, _)
        loop(i, acc) ==
            IF i > Len(recs) THEN acc
            ELSE IF skipped(recs[i], stem) THEN loop(i + 1, acc)
            ELSE LET pushed == IF isHit(recs[i], query, qText, qCipCanon)
                               THEN Append(acc, recs[i]) ELSE acc
                 IN  IF limitReached(Len(pushed), lim) THEN pushed
                     ELSE loop(i + 1, pushed)
    IN  loop(1, <<>>)

\* results.sort((a, b) => a.cipNorm < b.cipNorm ? -1 : a.cipNorm > b.cipNorm ? 1 : 0)
\* Array.prototype.sort is stable: equal keys keep their order
RECURSIVE sortByCip(_)
sortByCip(s) ==
    IF s = <<>> THEN <<>>
    ELSE LET t == sortByCip(SubSeq(s, 1, Len(s) - 1))
             r == s[Len(s)]
             after == {i \in 1..Len(t) : strLess(r.cipNorm, t[i].cipNorm)}
             k == IF after = {} THEN Len(t) + 1 ELSE SetMin(after)
         IN  SubSeq(t, 1, k - 1) \o <<r>> \o SubSeq(t, k, Len(t))

\* bug model: an exact code does not short-circuit the scan
searchNoShortCircuit(recs, map, qq, stem, lim) ==
    LET query == trim(qq)
    IN  sortByCip(scan(recs, query, normalizeText(query), normalizeCipInput(query),
                       stem, lim))

\* the array search({q, stemOnly, limit}) returns
search(recs, map, qq, stem, lim) ==
    LET query == trim(qq)
        qText == normalizeText(query)
        qCipCanon == normalizeCipInput(query)
    IN  IF qCipCanon # <<>> /\ qCipCanon \in DOMAIN map
        THEN IF ~stem \/ map[qCipCanon].stemEligible
             THEN <<map[qCipCanon]>>
             ELSE <<>>
        ELSE sortByCip(scan(recs, query, qText, qCipCanon, stem, lim))

-----------------------------------------------------------------------------
(* Inputs *)

\* raw records of the index document; cipFamily is left for the loader to derive
RawPool ==
    { [cip |-> <<"1","4",".","0","0","0","0">>, cipFamily |-> <<>>,
       title |-> <<"c"," ","e">>, definition |-> <<>>, stemEligible |-> TRUE],
      [cip |-> <<"1","4",".","0","9","0","1">>, cipFamily |-> <<>>,
       title |-> <<"E"," "," ","c">>, definition |-> <<>>, stemEligible |-> TRUE],
      [cip |-> <<"1","4",".","0","9","0","3">>, cipFamily |-> <<>>,
       title |-> <<"C">>, definition |-> <<"e">>, stemEligible |-> FALSE],
      [cip |-> <<"1","1",".","0","7","0","1">>, cipFamily |-> <<>>,
       title |-> <<"1","4",".","0","9","0","1"," ","c">>, definition |-> <<>>,
       stemEligible |-> TRUE] }

Pool == {loadRecord(r) : r \in RawPool}

\* the record collections: every code is unique (the Index invariant)
Collections ==
    UNION { {s \in [1..n -> Pool] : \A i, j \in 1..n : i # j => s[i].cip # s[j].cip}
            : n \in 0..MaxRecords }

Queries ==
    { <<>>,
      <<" ">>,
      <<"1","4">>,
      <<"(","1","4",")">>,
      <<"1","4",".","0","9">>,
      <<"1","4",".","0","9","0","1">>,
      <<"1","4",".","0","0","0","0">>,
      <<"1","4",".","9">>,
      <<"c"," ","e">>,
      <<"e"," ","c">>,
      <<"C">> }

InputChars == {"1", "9", ".", "(", " "}

-----------------------------------------------------------------------------
(* The query engine as a state machine: construction, then search calls *)

Init ==
    /\ records \in Collections
    /\ byCip = buildByCip(records)
    /\ q = <<>>
    /\ stemOnly = FALSE
    /\ limit = MaxLimit
    /\ results = <<>>
    /\ called = FALSE
    /\ input = <<>>
    /\ canon = <<>>
    /\ canonPage = <<>>
    /\ PageIdle

\* bug model: the sort is applied to the index array instead of a fresh one
SearchCallSortsIndex(qq, stem, lim) ==
    /\ q' = qq
    /\ stemOnly' = stem
    /\ limit' = lim
    /\ results' = search(records, byCip, qq, stem, lim)
    /\ records' = sortByCip(records)
    /\ called' = TRUE
    /\ UNCHANGED <<byCip, canonVars, pageVars>>

\* one call search({q, stemOnly, limit}): records and byCip are only read
SearchCall(qq, stem, lim) ==
    /\ q' = qq
    /\ stemOnly' = stem
    /\ limit' = lim
    /\ results' = search(records, byCip, qq, stem, lim)
    /\ called' = TRUE
    /\ UNCHANGED <<records, byCip, canonVars, pageVars>>

Next == \E qq \in Queries, stem \in BOOLEAN, lim \in 1..MaxLimit : SearchCall(qq, stem, lim)

Spec == Init /\ [][Next]_vars

-----------------------------------------------------------------------------
(* The canonicalizers applied to every text typed into the query box *)

InitCanon ==
    /\ records = <<>>
    /\ byCip = buildByCip(records)
    /\ q = <<>>
    /\ stemOnly = FALSE
    /\ limit = MaxLimit
    /\ results = <<>>
    /\ called = FALSE
    /\ input = <<>>
    /\ canon = normalizeCipInput(<<>>)
    /\ canonPage = canonicalCip(<<>>)
    /\ PageIdle

TypeChar(c) ==
    /\ Len(input) < MaxInputLen
    /\ input' = Append(input, c)
    /\ canon' = normalizeCipInput(input')
    /\ canonPage' = canonicalCip(input')
    /\ UNCHANGED <<searchVars, pageVars>>

NextCanon == \E c \in InputChars : TypeChar(c)

SpecCanon == InitCanon /\ [][NextCanon]_vars

-----------------------------------------------------------------------------
(* Properties of search (specification Spec) *)

Range(s) == {s[i] : i \in 1..Len(s)}

\* the canonical form of the last query
qCanon == normalizeCipInput(q)

\* the records that pass the STEM-only filter of the last call, in stored order
Admitted == SelectSeq(records, LAMBDA r : ~stemOnly \/ r.stemEligible)

C2_FamilySearchExact ==
    (called /\ ~stemOnly /\ isTwoDigits(trim(q)) /\ limit >= Len(records)
            /\ \A r \in Range(records) : ~includes(r.titleNorm, trim(q))) =>
        /\ Range(results) = {r \in Range(records) : r.cipFamily = trim(q)}
        /\ \A i, j \in 1..Len(results) :
              i < j => ~strLess(results[j].cipNorm, results[i].cipNorm)

\* what the same query returns with the STEM-only filter off
unfiltered == search(records, byCip, q, FALSE, limit)

\* C3 (as stated): every record of a stemOnly search is eligible and is also
\* returned by the same search with stemOnly false and the same limit.
C3_StemSubsetOriginal ==
    (called /\ stemOnly) =>
        \A i \in 1..Len(results) :
            results[i].stemEligible /\ results[i] \in Range(unfiltered)

\* C3 (amended): every record of a stemOnly search is eligible, and is also
\* returned by the same search with stemOnly false whenever that search was
\* not cut off by the limit (exact-match branch, or fewer than limit hits).
C3_StemSubset ==
    (called /\ stemOnly) =>
        \A i \in 1..Len(results) :
            /\ results[i].stemEligible
            /\ (qCanon \in DOMAIN byCip \/ Len(unfiltered) < limit)
                  => results[i] \in Range(unfiltered)

\* C3 witness: a stemOnly scan that returned something while the unfiltered
\* scan, not cut off, also holds a record that is not eligible.
C3_Witness ==
    /\ called /\ stemOnly
    /\ results # <<>>
    /\ qCanon \notin DOMAIN byCip
    /\ Len(unfiltered) < limit
    /\ \E j \in 1..Len(unfiltered) : ~unfiltered[j].stemEligible

\* C4 (as stated): an empty or whitespace-only query returns the first limit
\* records that pass the filter, in stored order.
C4_EmptyQueryBrowse ==
    (called /\ trim(q) = <<>>) =>
        results = SubSeq(Admitted, 1, IF limit < Len(Admitted) THEN limit ELSE Len(Admitted))

\* C5: search never returns more than limit records.
C5_LimitBound == called => Len(results) <= limit

\* C5 witness: a scan that stopped at the limit with more hits left behind.
C5_Witness ==
    /\ called
    /\ qCanon \notin DOMAIN byCip
    /\ Len(results) = limit
    /\ Cardinality({i \in 1..Len(records) :
                       isHit(records[i], trim(q), normalizeText(q), qCanon)}) > limit

\* title and definition taken together, lowercased
hay(r) == toLowerCase(r.title \o <<" ">> \o r.definition)

\* C6 (as stated): for a query that is not code-shaped (and has a token), with
\* room for every hit, a record that passes the filter is returned if and only
\* if every token of the query is a substring of its title and definition.
C6_KeywordAnd ==
    (called /\ qCanon = <<>> /\ tokenize(q) # <<>> /\ limit >= Len(records)) =>
        \A r \in Range(Admitted) :
            r \in Range(results) <=> \A t \in Range(tokenize(q)) : includes(hay(r), t)

\* C7 (as stated): a query typed as NN or NN.0000, with stemOnly false and
\* room for every hit, returns every record of family NN.
C7_FamilyOfZeroCode ==
    (called /\ ~stemOnly /\ limit >= Len(records)
            /\ (isTwoDigits(trim(q)) \/ isDotted(trim(q), 4))
            /\ endsWith(qCanon, <<".", "0", "0", "0", "0">>)) =>
        \A r \in Range(records) :
            r.cipFamily = SubSeq(qCanon, 1, 2) => r \in Range(results)

-----------------------------------------------------------------------------
(* Properties of the canonicalizer (specification SpecCanon) *)

\* the right segment padded with trailing zeros up to length 4
padEnd4(s) == s \o [i \in 1..(4 - Len(s)) |-> "0"]

\* C8 (as stated): NN.d and NN.ddd keep the left segment and get trailing
\* zeros appended to the right segment.
C8_ShortFragmentPadsRight ==
    (isDotted(input, 1) \/ isDotted(input, 3)) =>
        canon = SubSeq(input, 1, 3) \o padEnd4(SubSeq(input, 4, Len(input)))

-----------------------------------------------------------------------------
(* app.js: the page script (boot, update, render, event listeners) *)

BrowseLimit == 50     \* hits.slice(0, 50)
RenderLimit == 200    \* records.slice(0, 200)

\* the record arrays an index document may carry (raw JSON records)
RawCollections ==
    UNION { {s \in [1..n -> RawPool] : \A i, j \in 1..n : i # j => s[i].cip # s[j].cip}
            : n \in 0..MaxRecords }

\* the documents res.json() may resolve to: with a records array, or without
Docs ==
    {[hasRecords |-> TRUE, records |-> c] : c \in RawCollections}
        \cup {[hasRecords |-> FALSE, records |-> <<>>]}

\* Array.prototype.slice(0, n)
sliceArr(a, n) == SubSeq(a, 1, IF n < Len(a) THEN n ELSE Len(a))

searchIndex(index, qq, stem) ==
    IF index = <<>> THEN <<>>
    ELSE
    LET qTrim == trim(qq)
        toks == tokenize(qTrim)
        asCip == canonicalCip(qTrim)
        isCipQuery == asCip # <<>> /\ isDotted(asCip, 4)
        recs == IF index[1].hasRecords THEN index[1].records ELSE <<>>
        hits == IF stem THEN SelectSeq(recs, LAMBDA r : r.stemEligible = TRUE) ELSE recs
    IN  IF qTrim = <<>> THEN sliceArr(hits, BrowseLimit)
        ELSE IF isCipQuery
        THEN LET family == SubSeq(asCip, 1, 2)
                 roll4 == sliceTo(asCip, 5)
             IN  IF endsWith(asCip, <<".", "0", "0", "0", "0">>)
                 THEN SelectSeq(hits, LAMBDA r : startsWith(r.cip, family \o <<".">>))
                 ELSE IF endsWith(asCip, <<"0", "0">>)
                 THEN SelectSeq(hits, LAMBDA r : startsWith(r.cip, roll4))
                 ELSE SelectSeq(hits, LAMBDA r : r.cip = asCip)
        ELSE SelectSeq(hits, LAMBDA r : \A t \in Range(toks) : includes(hay(r), t))

\* what render(records, q, stemOnly) writes: #statusText, #results and, through
\* setUrlState, the q and stem parameters of the URL
render(recs, qq, stem) ==
    IF Len(recs) = 0
    THEN [status |-> StatusCount(0),
          results |-> ResultsNoMatches,
          url |-> [q |-> qq, stem |-> stem]]
    ELSE [status |-> StatusCount(Len(recs)),
          results |-> [kind |-> "cards",
                       cards |-> [i \in 1..Len(sliceArr(recs, RenderLimit)) |->
                                     [cip |-> recs[i].cip, stem |-> recs[i].stemEligible]],
                       more |-> Len(recs) > RenderLimit],
          url |-> [q |-> qq, stem |-> stem]]

\* update() with the given index and control values
update(index, qq, stem) ==
    LET out == render(searchIndex(index, qq, stem), qq, stem)
    IN  /\ elStatus' = out.status
        /\ elResults' = out.results
        /\ url' = out.url

\* init() up to its await: the controls are set from the URL and the one fetch
\* of the index is under way
InitPage ==
    /\ records = <<>>
    /\ byCip = buildByCip(records)
    /\ q = <<>>
    /\ stemOnly = FALSE
    /\ limit = MaxLimit
    /\ results = <<>>
    /\ called = FALSE
    /\ input = <<>>
    /\ canon = <<>>
    /\ canonPage = <<>>
    /\ url \in [q : Queries, stem : BOOLEAN]
    /\ elQ = url.q
    /\ elStem = url.stem
    /\ pc = "loading"
    /\ INDEX = <<>>
    /\ fetches = 1
    /\ elStatus = StatusInitial
    /\ elMeta = "initial"
    /\ elResults = ResultsInitial

\* the fetch succeeds with a document: INDEX is set, the meta line written,
\* update() runs, then the three listeners are registered
LoadSucceeds(doc) ==
    /\ pc = "loading"
    /\ INDEX' = <<doc>>
    /\ elMeta' = "loaded"
    /\ update(INDEX', elQ, elStem)
    /\ pc' = "listening"
    /\ UNCHANGED <<fetches, elQ, elStem, searchVars, canonVars>>

\* the load throws (fetch rejects, !res.ok, res.json() rejects, or the document
\* is null and INDEX.meta throws): the catch block writes the failure state,
\* then the three listeners are registered all the same
LoadFails ==
    /\ pc = "loading"
    /\ elStatus' = StatusFailed
    /\ elResults' = ResultsError
    /\ pc' = "listening"
    /\ UNCHANGED <<INDEX, fetches, elQ, elStem, elMeta, url, searchVars, canonVars>>

\* elQ "input" listener
InputEvent(text) ==
    /\ pc = "listening"
    /\ elQ' = text
    /\ update(INDEX, text, elStem)
    /\ UNCHANGED <<pc, INDEX, fetches, elStem, elMeta, searchVars, canonVars>>

\* elStem "change" listener
StemChange ==
    /\ pc = "listening"
    /\ elStem' = ~elStem
    /\ update(INDEX, elQ, elStem')
    /\ UNCHANGED <<pc, INDEX, fetches, elQ, elMeta, searchVars, canonVars>>

\* elClear "click" listener
ClearClick ==
    /\ pc = "listening"
    /\ elQ' = <<>>
    /\ elStem' = FALSE
    /\ update(INDEX, <<>>, FALSE)
    /\ UNCHANGED <<pc, INDEX, fetches, elMeta, searchVars, canonVars>>

NextPage ==
    \/ \E doc \in Docs : LoadSucceeds(doc)
    \/ LoadFails
    \/ \E text \in Queries : InputEvent(text)
    \/ StemChange
    \/ ClearClick

SpecPage == InitPage /\ [][NextPage]_vars

-----------------------------------------------------------------------------
(* Properties of the page script (specification SpecPage) *)

\* the failure state written by the catch block of init
FailureShown == elStatus = StatusFailed /\ elResults = ResultsError

\* C11 (as stated): once the load has failed and the failure state is shown
\* with INDEX unset, no later event fetches again, sets INDEX or replaces the
\* failure state (with a result count or anything else).
C11_LoadFailureTerminal ==
    [][ (pc = "listening" /\ INDEX = <<>> /\ FailureShown)
          => (FailureShown' /\ INDEX' = <<>> /\ fetches' = fetches) ]_vars

====
